---- MODULE Spec2Model ----
(***************************************************************************)
(* python-redis-cache (src/redis_cache/__init__.py): a function-result     *)
(* cache over a Redis store.  The store (string values with optional TTL,  *)
(* one sorted set per namespace, the server clock) is shared by several    *)
(* clients; each client runs one operation at a time (a wrapped call,      *)
(* mget, invalidate, invalidate_all) as a sequence of store commands.      *)
(* Strings are sequences of one-character strings, so that key composition *)
(* and the SCAN pattern match are computed, not assumed.                   *)
(***************************************************************************)
EXTENDS Integers, Sequences, FiniteSets, TLC

VARIABLES
    serializer,  \* RedisCache.serializer/deserializer pair in use: "dumps" is the
                 \* default (json.dumps/json.loads); "encode" is str.encode/
                 \* bytes.decode with json.dumps([args, kwargs]) as key_serializer
    now,         \* the store's clock (redis TIME), in microseconds
    store,       \* the store: kv (strings), exp (expiry deadlines), zs (sorted sets)
    cl,          \* per client: the operation in progress and its locals
    ops,         \* number of operations started so far
    budget,      \* number of operations that may be started in all
    last,        \* the operation that returned in the previous step, if any
    hist         \* per limited function: the inserts so far, while only inserts happened

vars == <<serializer, now, store, cl, ops, budget, last, hist>>

----------------------------------------------------------------------------
(* Bounds of the model *)

MaxOps == 3         \* operations started, over all clients, when only wrapped
                    \* calls and invalidate run
MaxOpsAll == 2      \* operations started when every operation may run
MaxBatch == 2       \* pending calls in one mget

Second == 1000000   \* microseconds in a second (redis TIME's second field)

\* The clock readings at which commands reach the store, in order
Instants == <<9, 10, Second + 10>>

Clients == {"c1", "c2"}
Fns == {"f1", "f2", "f3"}
None == <<"None">>                  \* Python's None: no value
NoFn == "-"

----------------------------------------------------------------------------
(* Strings *)

Range(s) == {s[i] : i \in DOMAIN s}

\* The byte value of a character (ASCII), which orders equal-score members.
CharCode(ch) ==
    CASE ch = " " -> 32 [] ch = "\"" -> 34 [] ch = "," -> 44
      [] ch = "1" -> 49 [] ch = "2" -> 50 [] ch = "3" -> 51
      [] ch = ":" -> 58 [] ch = "[" -> 91 [] ch = "]" -> 93
      [] ch = "a" -> 97 [] ch = "b" -> 98 [] ch = "c" -> 99
      [] ch = "e" -> 101 [] ch = "k" -> 107 [] ch = "p" -> 112
      [] ch = "r" -> 114 [] ch = "s" -> 115 [] ch = "y" -> 121
      [] ch = "{" -> 123 [] ch = "}" -> 125

RECURSIVE LexLess(_, _)
\* s < t in byte-wise lexicographic order (redis compares members with memcmp)
LexLess(s, t) ==
    IF t = <<>> THEN FALSE
    ELSE IF s = <<>> THEN TRUE
    ELSE IF CharCode(Head(s)) # CharCode(Head(t))
         THEN CharCode(Head(s)) < CharCode(Head(t))
         ELSE LexLess(Tail(s), Tail(t))

IsPrefix(p, s) == Len(p) <= Len(s) /\ SubSeq(s, 1, Len(p)) = p

----------------------------------------------------------------------------
(* Configuration: the cache instance and the decorated functions *)

prefix == <<"r", "c">>

\* RedisCache.cache(ttl, limit, namespace, support_batch_call) for each function
Descriptor(f) ==
    CASE f = "f1" -> [namespace |-> <<"a">>, ttl |-> 0, limit |-> 2,
                      support_batch_call |-> FALSE]
      [] f = "f2" -> [namespace |-> <<"a", ":", "b">>, ttl |-> 1, limit |-> 1,
                      support_batch_call |-> FALSE]
      [] f = "f3" -> [namespace |-> <<"c">>, ttl |-> 0, limit |-> 0,
                      support_batch_call |-> TRUE]

\* The argument tuples each function is called with: (1,), (2,), (3,)
ArgsOf(f) == IF f = "f1" THEN {1, 2, 3} ELSE {1, 2}

\* What an invocation of each function may return: the texts "", "p", "q"
Returns(f) ==
    CASE f = "f1" -> {<<"p">>}
      [] f = "f2" -> {<<>>, <<"p">>}
      [] f = "f3" -> {<<"p">>, <<"q">>}
      [] OTHER -> {}

Digit(n) == CASE n = 1 -> "1" [] n = 2 -> "2" [] n = 3 -> "3"

\* json.dumps([args, kwargs]) for args = (n,), kwargs = {}: "[[n], {}]"
DumpsCall(a) == <<"[", "[", Digit(a), "]", ",", " ", "{", "}", "]">>

\* json.dumps of a str result: the text in double quotes
Dumps(v) == <<"\"">> \o v \o <<"\"">>
\* json.loads of a quoted text
Loads(s) == SubSeq(s, 2, Len(s) - 1)
\* str.encode / bytes.decode of ASCII text: one byte per character
Encode(v) == [i \in 1..Len(v) |-> v[i]]
Decode(s) == [i \in 1..Len(s) |-> s[i]]

Serialize(v) == IF serializer = "dumps" THEN Dumps(v) ELSE Encode(v)
Deserialize(s) == IF serializer = "dumps" THEN Loads(s) ELSE Decode(s)

\* get_key(): serialized_data is a str under both configurations, so it is
\* used as it stands
get_key(f, a) == prefix \o <<":">> \o Descriptor(f).namespace \o <<":">> \o DumpsCall(a)
keys_key(f) == prefix \o <<":">> \o Descriptor(f).namespace
                  \o <<":", "k", "e", "y", "s">>

ValueKeys == {get_key(f, a) : f \in Fns, a \in {1, 2, 3}}
IndexKeys == {keys_key(f) : f \in Fns}
Limited == {f \in Fns : Descriptor(f).limit > 0}

----------------------------------------------------------------------------
(* The store *)

EmptyStore ==
    [kv |-> [k \in ValueKeys |-> None],
     exp |-> [k \in ValueKeys |-> 0],
     zs |-> [k \in IndexKeys |-> {}]]

\* DEL of a set of keys (a value key or a sorted-set key)
Del(st, ks) ==
    [kv |-> [k \in ValueKeys |-> IF k \in ks THEN None ELSE st.kv[k]],
     exp |-> [k \in ValueKeys |-> IF k \in ks THEN 0 ELSE st.exp[k]],
     zs |-> [k \in IndexKeys |-> IF k \in ks THEN {} ELSE st.zs[k]]]

\* Keys whose TTL has run out at time t are gone (the sorted sets are untouched)
Purge(st, t) ==
    Del(st, {k \in ValueKeys : st.exp[k] > 0 /\ st.exp[k] <= t})

\* Number of decimal digits of n (the length of the string redis TIME returns)
RECURSIVE Digits(_)
Digits(n) == IF n < 10 THEN 1 ELSE 1 + Digits(n \div 10)

RECURSIVE Pow10(_)
Pow10(n) == IF n = 0 THEN 1 ELSE 10 * Pow10(n - 1)

\* tonumber(time_parts[1] .. '.' .. time_parts[2]), in millionths: the
\* microsecond string is the fraction's digits as they stand
Score(t) ==
    LET sec == t \div Second
        usec == t % Second
    IN sec * Second + usec * Pow10(6 - Digits(usec))

\* ZADD: add the member or update its score
ZAdd(z, score, member) ==
    {e \in z : e.member # member} \cup {[member |-> member, score |-> score]}

ZLess(e, o) ==
    \/ e.score < o.score
    \/ e.score = o.score /\ LexLess(e.member, o.member)

ZMin(z) == CHOOSE e \in z : \A o \in z \ {e} : ZLess(e, o)

RECURSIVE ZPopMin(_, _)
\* ZPOPMIN: the members of the n lowest-ranked elements, lowest first
ZPopMin(z, n) ==
    IF n <= 0 \/ z = {} THEN <<>>
    ELSE <<ZMin(z).member>> \o ZPopMin(z \ {ZMin(z)}, n - 1)

Over_keeps_one_more(count, limit) == count - limit - 1

\* local over = count - limit
Over(count, limit) == count - limit

CacheLua_trim_keeps_values(st, t, key, idx, value, ttl, limit) ==
    LET set == [st EXCEPT !.kv[key] = value,
                          !.exp[key] = IF ttl > 0 THEN t + ttl * Second ELSE 0]
    IN IF limit > 0
       THEN LET z1 == ZAdd(set.zs[idx], Score(t), key)
                over == Over(Cardinality(z1), limit)
            IN IF over > 0
               THEN LET stale == Range(ZPopMin(z1, over))
                    IN [set EXCEPT !.zs[idx] = {e \in z1 : e.member \notin stale}]
               ELSE [set EXCEPT !.zs[idx] = z1]
       ELSE set

\* The registered Lua script, run at time t
CacheLua(st, t, key, idx, value, ttl, limit) ==
    LET set == [st EXCEPT !.kv[key] = value,
                          !.exp[key] = IF ttl > 0 THEN t + ttl * Second ELSE 0]
    IN IF limit > 0
       THEN LET z1 == ZAdd(set.zs[idx], Score(t), key)
                over == Over(Cardinality(z1), limit)
            IN IF over > 0
               THEN LET stale == Range(ZPopMin(z1, over))
                        popped == [set EXCEPT !.zs[idx] =
                                       {e \in z1 : e.member \notin stale}]
                    IN Del(popped, stale)
               ELSE [set EXCEPT !.zs[idx] = z1]
       ELSE set

----------------------------------------------------------------------------
(* Observations *)

Cached(st, f) == {a \in ArgsOf(f) : st.kv[get_key(f, a)] # None}
Members(st, f) == {e.member : e \in st.zs[keys_key(f)]}

\* What a namespace's function can see of the store
NsView(st, f) ==
    <<[a \in ArgsOf(f) |-> st.kv[get_key(f, a)]], st.zs[keys_key(f)]>>

----------------------------------------------------------------------------
(* History of inserts into a limited namespace, kept while nothing but       *)
(* inserts of new keys at strictly increasing times has touched it           *)

NoHist == [pure |-> TRUE, ins |-> <<>>]
Tainted == [pure |-> FALSE, ins |-> <<>>]

HistInsert(h, f, a, t) ==
    IF f \notin Limited THEN h
    ELSE IF /\ h[f].pure
            /\ \A i \in DOMAIN h[f].ins : h[f].ins[i].arg # a /\ h[f].ins[i].t < t
         THEN [h EXCEPT ![f].ins = Append(@, [arg |-> a, t |-> t])]
         ELSE [h EXCEPT ![f] = Tainted]

\* Any other change of a namespace's values or index ends its history
HistOther(h, st, st2) ==
    [f \in Limited |-> IF NsView(st, f) = NsView(st2, f) THEN h[f] ELSE Tainted]

----------------------------------------------------------------------------
(* Clients *)

Idle == [op |-> "none", pc |-> "idle", fn |-> NoFn, arg |-> 0, expect |-> None,
         cursor |-> <<>>, elements |-> <<>>, snap |-> {},
         batch |-> <<>>, objs |-> <<>>, groups |-> <<>>, deser |-> <<>>]

\* A client may start an operation: it is idle, and, the clients being
\* interchangeable, "c2" starts only while "c1" is busy
Ready(c) ==
    /\ cl[c].pc = "idle"
    /\ ops < budget
    /\ c = "c1" \/ cl["c1"].pc # "idle"

\* What the caller of the operation that has just returned got
NoLast == [op |-> "none", fn |-> NoFn, arg |-> 0, outcome |-> "-",
           ret |-> None, computed |-> None, expect |-> None, found |-> FALSE,
           io |-> FALSE, wfail |-> FALSE, snap |-> {}, n |-> 0,
           calls |-> <<>>, misses |-> <<>>, pops |-> <<>>]

\* A key that is written again is no longer the entry an invalidate_all in
\* progress found cached when it began
Touch(clx, ks) == [c \in Clients |-> [clx[c] EXCEPT !.snap = @ \ ks]]

\* A fresh store and idle clients
InitWith(b) ==
    /\ serializer \in {"dumps", "encode"}
    /\ now = Instants[1]
    /\ store = EmptyStore
    /\ cl = [c \in Clients |-> Idle]
    /\ ops = 0
    /\ budget = b
    /\ last = NoLast
    /\ hist = [f \in Limited |-> NoHist]

\* The store's clock advances to the next instant; values past their TTL expire
Tick ==
    /\ \E i \in 1..(Len(Instants) - 1) : now = Instants[i] /\ now' = Instants[i + 1]
    /\ store' = Purge(store, now')
    /\ hist' = HistOther(hist, store, store')
    /\ last' = NoLast
    /\ UNCHANGED <<serializer, budget, cl, ops>>

----------------------------------------------------------------------------
(* CacheDecorator.__call__.inner: a wrapped call *)

BypassCache_never(f) == FALSE

\* inner(): a function decorated with support_batch_call is called through
BypassCache(f) == Descriptor(f).support_batch_call

CallDirect(c, f, a, r) ==
    /\ Ready(c)
    /\ BypassCache(f)
    /\ last' = [NoLast EXCEPT !.op = "call", !.fn = f, !.arg = a,
                              !.outcome = "returned", !.ret = r, !.computed = r]
    /\ ops' = ops + 1
    /\ UNCHANGED <<serializer, budget, now, store, cl, hist>>

\* `if not result`: None and the empty string both count as a miss
Falsy(result) == result = None \/ result = <<>>

\* inner(): key = get_key(...); result = client.get(key); a hit returns
CallGet(c, f, a) ==
    /\ Ready(c)
    /\ ~BypassCache(f)
    /\ LET result == store.kv[get_key(f, a)]
           expect == IF last.op = "call" /\ last.outcome = "returned"
                         /\ last.fn = f /\ last.arg = a
                      THEN last.ret ELSE None
       IN IF Falsy(result)
          THEN /\ cl' = [cl EXCEPT ![c] = [Idle EXCEPT !.op = "call", !.pc = "write",
                                                       !.fn = f, !.arg = a,
                                                       !.expect = expect]]
               /\ last' = NoLast
          ELSE /\ cl' = cl
               /\ last' = [NoLast EXCEPT !.op = "call", !.fn = f,
                                         !.arg = a, !.outcome = "returned",
                                         !.ret = Deserialize(result),
                                         !.expect = expect, !.found = TRUE,
                                         !.io = TRUE]
    /\ ops' = ops + 1
    /\ UNCHANGED <<serializer, budget, now, store, hist>>

\* inner(): result = fn(...); the script stores it; the result is returned
CallWrite(c, r) ==
    /\ cl[c].op = "call" /\ cl[c].pc = "write"
    /\ LET f == cl[c].fn
           a == cl[c].arg
       IN /\ store' = CacheLua(store, now, get_key(f, a), keys_key(f), Serialize(r),
                               Descriptor(f).ttl, Descriptor(f).limit)
          /\ hist' = HistInsert(hist, f, a, now)
          /\ last' = [NoLast EXCEPT !.op = "call", !.fn = f, !.arg = a,
                                    !.outcome = "returned", !.ret = r, !.computed = r,
                                    !.expect = cl[c].expect, !.io = TRUE]
          /\ cl' = Touch([cl EXCEPT ![c] = Idle], {get_key(f, a)})
    /\ UNCHANGED <<serializer, budget, now, ops>>

\* inner(): the store is unreachable when the script is sent: the call raises
CallWriteFail(c, r) ==
    /\ cl[c].op = "call" /\ cl[c].pc = "write"
    /\ last' = [NoLast EXCEPT !.op = "call", !.fn = cl[c].fn,
                              !.arg = cl[c].arg, !.outcome = "raised", !.computed = r,
                              !.expect = cl[c].expect, !.io = TRUE, !.wfail = TRUE]
    /\ cl' = [cl EXCEPT ![c] = Idle]
    /\ UNCHANGED <<serializer, budget, now, store, ops, hist>>

----------------------------------------------------------------------------
(* CacheDecorator.invalidate and invalidate_all *)

\* ZREM of one member
ZRem(st, idx, member) ==
    [st EXCEPT !.zs[idx] = {e \in @ : e.member # member}]

InvalidatePipeline_drops_index(st, f, a) ==
    Del(st, {get_key(f, a), keys_key(f)})

\* The pipeline of invalidate(): DEL key, ZREM keys_key key, run as one
\* MULTI/EXEC transaction
InvalidatePipeline(st, f, a) ==
    ZRem(Del(st, {get_key(f, a)}), keys_key(f), get_key(f, a))

invalidate(c, f, a) ==
    /\ Ready(c)
    /\ store' = InvalidatePipeline(store, f, a)
    /\ hist' = HistOther(hist, store, store')
    /\ last' = [NoLast EXCEPT !.op = "invalidate", !.fn = f, !.arg = a,
                              !.outcome = "returned", !.io = TRUE,
                              !.found = (store.kv[get_key(f, a)] # None)]
    /\ ops' = ops + 1
    /\ UNCHANGED <<serializer, budget, now, cl>>

\* chunks(iterable, 500)
ChunkSize == 500

\* The glob f'{prefix}:{namespace}:*' matches every key that starts with
\* the text before the star
ScanPattern(f) == prefix \o <<":">> \o Descriptor(f).namespace \o <<":">>
Matches(f, k) == IsPrefix(ScanPattern(f), k)

Exists(st, k) == IF k \in ValueKeys THEN st.kv[k] # None ELSE st.zs[k] # {}

RECURSIVE SortKeys(_)
SortKeys(S) ==
    IF S = {} THEN <<>>
    ELSE LET m == CHOOSE k \in S : \A o \in S \ {k} : LexLess(k, o)
         IN <<m>> \o SortKeys(S \ {m})

Reverse(s) == [i \in 1..Len(s) |-> s[Len(s) + 1 - i]]

\* The order in which the SCAN cursor passes the matching keys' places in the
\* table: fixed by the table's layout, here one of two layouts
ScanOrder(f, up) ==
    LET asc == SortKeys({k \in ValueKeys \cup IndexKeys : Matches(f, k)})
    IN IF up THEN asc ELSE Reverse(asc)

chunks_drops_short_chunk(elements, n, exhausted) ==
    IF Len(elements) = n THEN "yield"
    ELSE IF ~exhausted THEN "pull"
    ELSE "stop"

\* chunks(): what the generator does once `elements` holds what it has pulled:
\* pull the next key, yield the chunk, or stop
chunks(elements, n, exhausted) ==
    IF Len(elements) = n THEN "yield"
    ELSE IF ~exhausted THEN "pull"
    ELSE IF Len(elements) = 0 THEN "stop"
    ELSE "yield"

\* invalidate_all(): the scan begins (scan_iter is lazy: nothing is read yet)
invalidate_all(c, f, up) ==
    /\ Ready(c)
    /\ cl' = [cl EXCEPT ![c] = [Idle EXCEPT !.op = "invalidate_all", !.pc = "scan",
                                            !.fn = f, !.cursor = ScanOrder(f, up),
                                            !.snap = {get_key(f, a) : a \in Cached(store, f)}]]
    /\ ops' = ops + 1
    /\ last' = NoLast
    /\ UNCHANGED <<serializer, budget, now, store, hist>>

IAReturn(c) ==
    [NoLast EXCEPT !.op = "invalidate_all", !.fn = cl[c].fn, !.outcome = "returned",
                   !.io = TRUE, !.snap = cl[c].snap]

\* SCAN passes the next place: a key that exists there now is pulled
ScanStep(c) ==
    /\ cl[c].op = "invalidate_all" /\ cl[c].pc = "scan"
    /\ LET k == Head(cl[c].cursor)
           rest == Tail(cl[c].cursor)
           elements == IF Exists(store, k) THEN Append(cl[c].elements, k)
                       ELSE cl[c].elements
           todo == chunks(elements, ChunkSize, rest = <<>>)
       IN IF todo = "stop"
          THEN /\ cl' = [cl EXCEPT ![c] = Idle]
               /\ last' = IAReturn(c)
          ELSE /\ cl' = [cl EXCEPT ![c].cursor = rest, ![c].elements = elements,
                                   ![c].pc = IF todo = "yield" THEN "del" ELSE "scan"]
               /\ last' = NoLast
    /\ UNCHANGED <<serializer, budget, now, store, ops, hist>>

\* self.client.delete(*keys) for one chunk; then the generator goes on
DeleteChunk(c) ==
    /\ cl[c].op = "invalidate_all" /\ cl[c].pc = "del"
    /\ store' = Del(store, Range(cl[c].elements))
    /\ hist' = HistOther(hist, store, store')
    /\ IF chunks(<<>>, ChunkSize, cl[c].cursor = <<>>) = "stop"
       THEN /\ cl' = [cl EXCEPT ![c] = Idle]
            /\ last' = IAReturn(c)
       ELSE /\ cl' = [cl EXCEPT ![c].elements = <<>>, ![c].pc = "scan"]
            /\ last' = NoLast
    /\ UNCHANGED <<serializer, budget, now, ops>>

----------------------------------------------------------------------------
(* RedisCache.mget *)

\* The pending calls mget is given: dicts {'fn': f, 'args': (a,)}
MgetArgs(f) == IF f = "f1" THEN {1, 2} ELSE {1}
PendingCalls == {[fn |-> f, arg |-> a, call_idx |-> 0] : f \in Fns, a \in {1, 2}}

\* A batch is a tuple of references to dict objects; the same object may be
\* passed at several positions.  Objects are numbered in order of first use.
Batches ==
    UNION {{b \in [1..n -> 1..n] :
               /\ b[1] = 1
               /\ \A i \in 2..n : \E j \in 1..(i - 1) : b[i] <= b[j] + 1}
           : n \in 1..MaxBatch}

NumObjs(b) == Cardinality(Range(b))

\* keys.append(fn.instance.get_key(args, kwargs)) for each position
MgetKeys(batch, objs) ==
    [i \in 1..Len(batch) |-> get_key(objs[batch[i]].fn, objs[batch[i]].arg)]

AddMiss_one_group(groups, f, m) ==
    IF groups # <<>>
    THEN [j \in DOMAIN groups |->
             IF j = 1 THEN [groups[j] EXCEPT !.members = Append(@, m)] ELSE groups[j]]
    ELSE Append(groups, [fn |-> f, members |-> <<m>>])

\* args_by_fn[fn].append(fn_and_args): a dict keeps its keys in insertion order
AddMiss(groups, f, m) ==
    IF \E j \in DOMAIN groups : groups[j].fn = f
    THEN [j \in DOMAIN groups |->
             IF groups[j].fn = f
             THEN [groups[j] EXCEPT !.members = Append(@, m)]
             ELSE groups[j]]
    ELSE Append(groups, [fn |-> f, members |-> <<m>>])

\* A hit is whatever MGET returned that is not None
IsMiss(result) == result = None

RECURSIVE Classify(_, _, _, _)
\* The loop over enumerate(results), from request index i on.  A miss sets
\* call_idx on the dict object itself and appends the object to its function's
\* group (pos: the position it was appended for); a hit is deserialized.
Classify(i, batch, results, acc) ==
    IF i > Len(batch) THEN acc
    ELSE LET ref == batch[i]
         IN IF IsMiss(results[i])
            THEN Classify(i + 1, batch, results,
                     [acc EXCEPT !.objs[ref].call_idx = i,
                                 !.groups = AddMiss(@, acc.objs[ref].fn,
                                                    [ref |-> ref, pos |-> i])])
            ELSE Classify(i + 1, batch, results,
                     [acc EXCEPT !.deser = (i :> Deserialize(results[i])) @@ @])

Min(S) == CHOOSE m \in S : \A o \in S : m <= o

RECURSIVE ValuesInKeyOrder(_, _)
ValuesInKeyOrder(d, S) ==
    IF S = {} THEN <<>>
    ELSE <<d[Min(S)]>> \o ValuesInKeyOrder(d, S \ {Min(S)})

\* [deserialized_results[key] for key in sorted(deserialized_results.keys())]
Assemble(d) == ValuesInKeyOrder(d, DOMAIN d)

\* How many times each request index is assigned in deserialized_results: by
\* the hit branch of the loop and by the write-back of each queued result
Populations(n, d, queue) ==
    [i \in 1..n |->
        (IF i \in DOMAIN d THEN 1 ELSE 0)
        + Cardinality({j \in 1..Len(queue) : queue[j].call_idx = i})]

\* mget(): the keys, the MGET, the classification; with no miss it returns
MgetRead(c, batch, objs) ==
    /\ Ready(c)
    /\ LET keys == MgetKeys(batch, objs)
           results == [i \in 1..Len(batch) |-> store.kv[keys[i]]]
           acc == Classify(1, batch, results,
                           [objs |-> objs, groups |-> <<>>, deser |-> <<>>])
       IN IF acc.groups = <<>>
          THEN /\ cl' = cl
               /\ last' = [NoLast EXCEPT !.op = "mget", !.outcome = "returned",
                                         !.ret = Assemble(acc.deser),
                                         !.expect = [i \in 1..Len(batch) |-> acc.deser[i]],
                                         !.io = TRUE, !.found = TRUE, !.n = Len(batch),
                                         !.pops = Populations(Len(batch), acc.deser, <<>>)]
          ELSE /\ cl' = [cl EXCEPT ![c] = [Idle EXCEPT !.op = "mget", !.pc = "exec",
                                                       !.batch = batch, !.objs = acc.objs,
                                                       !.groups = acc.groups,
                                                       !.deser = acc.deser]]
               /\ last' = NoLast
    /\ ops' = ops + 1
    /\ UNCHANGED <<serializer, budget, now, store, hist>>

RECURSIVE Flatten(_)
\* The misses in the order their groups are processed: args_by_fn.items()
Flatten(groups) ==
    IF groups = <<>> THEN <<>>
    ELSE [j \in 1..Len(Head(groups).members) |->
             [fn |-> Head(groups).fn, ref |-> Head(groups).members[j].ref,
              pos |-> Head(groups).members[j].pos]]
         \o Flatten(Tail(groups))

\* zip(args_batch, batch_result): each result goes to the script queued for
\* keys[call_idx] and to deserialized_results[call_idx]
Queue(c, flat, rs) ==
    [j \in 1..Len(flat) |->
        LET idx == cl[c].objs[flat[j].ref].call_idx
        IN [fn |-> flat[j].fn, call_idx |-> idx,
            key |-> MgetKeys(cl[c].batch, cl[c].objs)[idx],
            arg |-> cl[c].objs[cl[c].batch[idx]].arg,
            value |-> rs[j]]]

RECURSIVE Populate(_, _)
Populate(d, queue) ==
    IF queue = <<>> THEN d
    ELSE Populate((Head(queue).call_idx :> Head(queue).value) @@ d, Tail(queue))

RECURSIVE ExecPipeline(_, _, _)
\* pipeline.execute(): the queued scripts run in order inside one MULTI/EXEC;
\* acc is the store and the history, ts the clock reading of each script
ExecPipeline(acc, queue, ts) ==
    IF queue = <<>> THEN acc
    ELSE LET q == Head(queue)
             st == Purge(acc.st, Head(ts))
         IN ExecPipeline(
                [st |-> CacheLua(st, Head(ts), q.key, keys_key(q.fn), Serialize(q.value),
                                 Descriptor(q.fn).ttl, Descriptor(q.fn).limit),
                 h |-> HistInsert(HistOther(acc.h, acc.st, st), q.fn, q.arg, Head(ts))],
                Tail(queue), Tail(ts))

\* The clock readings the scripts of one transaction may see: the server
\* either freezes the clock for the transaction or reads it for each script
PipelineTimes(n) ==
    {ts \in [1..n -> {t \in Range(Instants) : t >= now /\ t - now < 1000}] :
        \A i \in 1..(n - 1) : ts[i] <= ts[i + 1]}

AllReturns == UNION {Returns(f) : f \in Fns}

\* What the functions return for the misses, in processing order
MissResults(flat) ==
    {rs \in [1..Len(flat) -> AllReturns] : \A j \in 1..Len(flat) : rs[j] \in Returns(flat[j].fn)}

RECURSIVE Invocations(_, _)
\* _get_batch_call_result for each group in turn: a batch-capable function is
\* invoked once with the vector of its group's arguments, any other function
\* once per member of its group
Invocations(groups, objs) ==
    IF groups = <<>> THEN <<>>
    ELSE LET g == Head(groups)
             argsOf == [j \in 1..Len(g.members) |-> objs[g.members[j].ref].arg]
         IN (IF Descriptor(g.fn).support_batch_call
             THEN <<[fn |-> g.fn, vector |-> argsOf]>>
             ELSE [j \in 1..Len(argsOf) |-> [fn |-> g.fn, vector |-> <<argsOf[j]>>]])
            \o Invocations(Tail(groups), objs)

\* The pending calls for which MGET returned None, in request order
MissedCalls(c) ==
    LET calls == [i \in 1..Len(cl[c].batch) |->
                     [pos |-> i, fn |-> cl[c].objs[cl[c].batch[i]].fn,
                      arg |-> cl[c].objs[cl[c].batch[i]].arg]]
    IN SelectSeq(calls, LAMBDA m : m.pos \notin DOMAIN cl[c].deser)

\* The result of the pending call at each request position: what the store
\* held for a hit, what its function returned for a miss
Expected(c, flat, rs) ==
    [i \in 1..Len(cl[c].batch) |->
        IF \E j \in 1..Len(flat) : flat[j].pos = i
        THEN rs[CHOOSE j \in 1..Len(flat) : flat[j].pos = i]
        ELSE cl[c].deser[i]]

\* mget(): the misses are computed, the scripts queued and run, the list built
MgetExec(c, rs, ts) ==
    /\ cl[c].op = "mget" /\ cl[c].pc = "exec"
    /\ LET flat == Flatten(cl[c].groups)
           queue == Queue(c, flat, rs)
           done == ExecPipeline([st |-> store, h |-> hist], queue, ts)
       IN /\ rs \in MissResults(flat)
          /\ ts \in PipelineTimes(Len(flat))
          /\ store' = done.st
          /\ hist' = done.h
          /\ now' = ts[Len(ts)]
          /\ last' = [NoLast EXCEPT !.op = "mget", !.outcome = "returned",
                                    !.ret = Assemble(Populate(cl[c].deser, queue)),
                                    !.expect = Expected(c, flat, rs),
                                    !.io = TRUE, !.n = Len(cl[c].batch),
                                    !.calls = Invocations(cl[c].groups, cl[c].objs),
                                    !.misses = MissedCalls(c),
                                    !.pops = Populations(Len(cl[c].batch),
                                                         cl[c].deser, queue)]
          /\ cl' = Touch([cl EXCEPT ![c] = Idle], {queue[j].key : j \in 1..Len(queue)})
    /\ UNCHANGED <<serializer, budget, ops>>

\* mget(): the store is unreachable when the pipeline is sent: mget raises
MgetExecFail(c, rs) ==
    /\ cl[c].op = "mget" /\ cl[c].pc = "exec"
    /\ LET flat == Flatten(cl[c].groups)
       IN /\ rs \in MissResults(flat)
          /\ last' = [NoLast EXCEPT !.op = "mget", !.outcome = "raised",
                                    !.expect = Expected(c, flat, rs),
                                    !.io = TRUE, !.wfail = TRUE,
                                    !.n = Len(cl[c].batch),
                                    !.calls = Invocations(cl[c].groups, cl[c].objs),
                                    !.misses = MissedCalls(c)]
    /\ cl' = [cl EXCEPT ![c] = Idle]
    /\ UNCHANGED <<serializer, budget, now, store, ops, hist>>

----------------------------------------------------------------------------
(* Specifications *)

CallActions ==
    \/ \E c \in Clients, f \in Fns : \E a \in ArgsOf(f), r \in Returns(f) :
           CallDirect(c, f, a, r)
    \/ \E c \in Clients, f \in Fns : \E a \in ArgsOf(f) : CallGet(c, f, a)
    \/ \E c \in Clients : \E r \in Returns(cl[c].fn) : CallWrite(c, r)
    \/ \E c \in Clients : \E r \in Returns(cl[c].fn) : CallWriteFail(c, r)

MgetActions ==
    \/ \E c \in Clients, batch \in Batches :
           \E objs \in [1..NumObjs(batch) -> PendingCalls] :
               /\ \A o \in DOMAIN objs : objs[o].arg \in MgetArgs(objs[o].fn)
               /\ MgetRead(c, batch, objs)
    \/ \E c \in Clients : \E rs \in MissResults(Flatten(cl[c].groups)),
                             ts \in PipelineTimes(Len(Flatten(cl[c].groups))) :
           MgetExec(c, rs, ts)
    \/ \E c \in Clients : \E rs \in MissResults(Flatten(cl[c].groups)) :
           MgetExecFail(c, rs)

InvalidateAllActions ==
    \/ \E c \in Clients, f \in Fns, up \in BOOLEAN : invalidate_all(c, f, up)
    \/ \E c \in Clients : ScanStep(c)
    \/ \E c \in Clients : DeleteChunk(c)

InvalidateAction == \E c \in Clients, f \in Fns : \E a \in ArgsOf(f) : invalidate(c, f, a)

\* Every operation, every client
Next == Tick \/ CallActions \/ MgetActions \/ InvalidateAction \/ InvalidateAllActions

Init == InitWith(MaxOpsAll)

Spec == Init /\ [][Next]_vars

\* Wrapped calls and invalidate
NextCalls == Tick \/ CallActions \/ InvalidateAction

SpecCalls == InitWith(MaxOps) /\ [][NextCalls]_vars

\* Wrapped calls and invalidate_all
NextInvalidateAll == CallActions \/ InvalidateAllActions

SpecInvalidateAll == InitWith(MaxOpsAll) /\ [][NextInvalidateAll]_vars

\* Wrapped calls and mget
NextMget == CallActions \/ MgetActions

SpecMget == InitWith(MaxOpsAll) /\ [][NextMget]_vars

\* Inserts only: wrapped calls of the functions with a limit by either client
\* (one result each, the values play no part in the index), and mget batches
\* of distinct pending calls of f1 by client c1
InsertActions ==
    \/ \E c \in Clients, f \in Limited : \E a \in ArgsOf(f) : CallGet(c, f, a)
    \/ \E c \in Clients : \E r \in Returns(cl[c].fn) \ {<<>>} : CallWrite(c, r)
    \/ \E n \in 1..MaxBatch :
           \E objs \in [1..n -> {o \in PendingCalls : o.fn = "f1"}] :
               /\ \A o \in DOMAIN objs : objs[o].arg \in MgetArgs(objs[o].fn)
               /\ MgetRead("c1", [i \in 1..n |-> i], objs)
    \/ \E c \in Clients : \E rs \in MissResults(Flatten(cl[c].groups)),
                             ts \in PipelineTimes(Len(Flatten(cl[c].groups))) :
           MgetExec(c, rs, ts)

NextInsert == Tick \/ InsertActions

SpecInsert == InitWith(MaxOpsAll) /\ [][NextInsert]_vars

\* One client alone running mget after mget, on batches of pending calls
\* f1(1), f2(1) and f3(1) (any of them repeated, as equal dicts or as the same dict),
\* the store's clock standing still
SoloActions ==
    \/ \E batch \in Batches :
           \E objs \in [1..NumObjs(batch) ->
                            {o \in PendingCalls : o.arg = 1}] :
               MgetRead("c1", batch, objs)
    \/ \E rs \in MissResults(Flatten(cl["c1"].groups)) :
           MgetExec("c1", rs, [j \in 1..Len(rs) |-> now])

NextSolo == SoloActions

SpecSolo == InitWith(MaxOpsAll) /\ [][NextSolo]_vars

----------------------------------------------------------------------------
(* Claims *)

\* C1: with the default serializer, two wrapped calls with the same arguments,
\* one right after the other: the second is a hit, returns what the first
\* returned and does not invoke the function again (expect is what the call
\* just before returned for the same function and arguments).
C1_SecondCallIsHit ==
    serializer = "dumps" =>
        /\ \A c \in Clients : cl[c].op = "call" => cl[c].expect = None
        /\ (last.op = "call" /\ last.expect # None)
               => last.found /\ last.computed = None /\ last.ret = last.expect

\* C2: the index of a namespace with limit L > 0 never holds more than L
\* members, whatever wrapped calls and mget write-backs the clients interleave.
C2_IndexWithinLimit ==
    \A f \in Limited : Cardinality(store.zs[keys_key(f)]) <= Descriptor(f).limit

\* C2 witness: an index is full after more inserts of new keys than its limit
C2_Witness ==
    \E f \in Limited :
        /\ Cardinality(store.zs[keys_key(f)]) = Descriptor(f).limit
        /\ hist[f].pure /\ Len(hist[f].ins) > Descriptor(f).limit

\* C3: every member of a namespace index has its value in the store.
C3_MembersHaveValues ==
    \A f \in Fns : \A k \in Members(store, f) : store.kv[k] # None

LastInserted(f, n) ==
    {get_key(f, hist[f].ins[i].arg) :
        i \in {j \in DOMAIN hist[f].ins : j > Len(hist[f].ins) - n}}

\* C4: after inserts of L + k new keys (k >= 1) at strictly increasing times
\* into a namespace with limit L, and nothing else, the keys whose values are
\* in the store are those of the k + 1 most recent inserts.
C4_MostRecentSurvive ==
    \A f \in Limited :
        LET k == Len(hist[f].ins) - Descriptor(f).limit
        IN (hist[f].pure /\ k >= 1)
               => {get_key(f, a) : a \in Cached(store, f)} = LastInserted(f, k + 1)

\* C5: mget returns one element per pending call, the i-th being the result
\* of the i-th pending call.
C5_MgetInRequestOrder ==
    (last.op = "mget" /\ last.outcome = "returned")
        => Len(last.ret) = last.n /\ last.ret = last.expect

\* C6: invalidate(args) removes that key's value and index member and changes
\* no other value, expiry or index member; the key is then a miss for both
\* lookups and every other key is classified as before.
C6_InvalidateRemovesExactlyOne ==
    [][last'.op = "invalidate" =>
          LET f == last'.fn
              key == get_key(last'.fn, last'.arg)
          IN /\ store'.kv[key] = None /\ Falsy(store'.kv[key]) /\ IsMiss(store'.kv[key])
             /\ key \notin Members(store', f)
             /\ \A k \in ValueKeys \ {key} :
                    store'.kv[k] = store.kv[k] /\ store'.exp[k] = store.exp[k]
             /\ \A idx \in IndexKeys :
                    store'.zs[idx] = {e \in store.zs[idx] : e.member # key}]_vars

\* C6 witness: invalidate has returned for a key that was cached, and another
\* key of the namespace is still cached and indexed
C6_Witness ==
    /\ last.op = "invalidate" /\ last.found
    /\ \E a \in ArgsOf(last.fn) \ {last.arg} :
           /\ store.kv[get_key(last.fn, a)] # None
           /\ get_key(last.fn, a) \in Members(store, last.fn)

\* C7: when invalidate_all returns, every key of the namespace that was cached
\* when the call began (and has not been inserted again since) is absent.
C7_InvalidateAllClears ==
    (last.op = "invalidate_all" /\ last.outcome = "returned")
        => \A k \in last.snap : IsMiss(store.kv[k]) /\ Falsy(store.kv[k])

\* C7 witness: invalidate_all has returned and there was a key to clear
C7_Witness ==
    last.op = "invalidate_all" /\ last.outcome = "returned" /\ last.snap # {}

\* C8: a DEL issued by invalidate_all of one namespace changes no value cached
\* under a different namespace.
C8_OtherNamespacesKept ==
    [][\A c \in Clients :
          (cl[c].op = "invalidate_all" /\ cl[c].pc = "del" /\ cl'[c].pc # "del")
              => \A g \in Fns :
                     Descriptor(g).namespace # Descriptor(cl[c].fn).namespace
                         => \A a \in ArgsOf(g) :
                                store'.kv[get_key(g, a)] = store.kv[get_key(g, a)]]_vars

\* C9: when the write after a recomputation fails, the wrapped call or mget
\* still returns the computed result.
C9_WriteFailureStillReturns ==
    last.wfail =>
        /\ last.outcome = "returned"
        /\ last.op = "call" => last.ret = last.computed
        /\ last.op = "mget" => last.ret = last.expect

\* C10: a direct call of a function wrapped with support_batch_call invokes the
\* function, returns its result, sends nothing to the store and leaves the
\* store as it was; no such call is ever between a read and a write.
C10_BatchCallBypasses ==
    [][/\ \A c \in Clients :
              cl'[c].op = "call" => ~Descriptor(cl'[c].fn).support_batch_call
       /\ (last'.op = "call" /\ Descriptor(last'.fn).support_batch_call)
              => /\ store' = store
                 /\ ~last'.io
                 /\ last'.computed \in Returns(last'.fn)
                 /\ last'.ret = last'.computed]_vars

\* C10 witness: such a call has returned while the store holds a value
C10_Witness ==
    /\ last.op = "call" /\ Descriptor(last.fn).support_batch_call
    /\ last.outcome = "returned"
    /\ \E k \in ValueKeys : store.kv[k] # None

ValuesMatchIndex(st, f) == {get_key(f, a) : a \in Cached(st, f)} = Members(st, f)

\* C12: an insert into a limited namespace is one step for every other client:
\* whatever the clients interleave, a step that runs the script (of a wrapped
\* call or of mget's pipeline) takes a namespace whose values and index members
\* agree to one where they agree: no value without its member, no member
\* without its value.
C12_InsertIsAtomic ==
    [][(now' = now \/ last'.op = "mget")
           => \A f \in Limited :
                  ValuesMatchIndex(store, f) => ValuesMatchIndex(store', f)]_vars

\* C12 witness: a wrapped call has just inserted into a namespace that has
\* taken more inserts than its limit, and values and members agree
C12_Witness ==
    /\ last.op = "call" /\ last.computed # None /\ last.fn \in Limited
    /\ Len(hist[last.fn].ins) > Descriptor(last.fn).limit
    /\ ValuesMatchIndex(store, last.fn)

\* C13: a wrapped call's insert into a namespace with limit L that leaves the
\* index with count > L members removes the count - L lowest-ranked members and
\* deletes their values, and nothing else; so, with limit 2, after inserts of
\* three new keys one after the other the index holds the second and the third
\* and the first's value is absent.
C13_TrimRemovesLowest ==
    [][(last'.op = "call" /\ last'.computed # None /\ last'.outcome = "returned"
            /\ last'.fn \in Limited)
        => LET f == last'.fn
               key == get_key(f, last'.arg)
               L == Descriptor(f).limit
               full == ZAdd(store.zs[keys_key(f)], Score(now), key)
               kept == store'.zs[keys_key(f)]
               gone == full \ kept
               ins == hist'[f].ins
           IN /\ kept \subseteq full
              /\ Cardinality(gone) = IF Cardinality(full) > L
                                     THEN Cardinality(full) - L ELSE 0
              /\ \A g \in gone, e \in kept : ZLess(g, e)
              /\ \A k \in ValueKeys :
                     store'.kv[k] = IF k \in {g.member : g \in gone} THEN None
                                    ELSE IF k = key THEN Serialize(last'.ret)
                                    ELSE store.kv[k]
              /\ (hist'[f].pure /\ L = 2 /\ Len(ins) = 3)
                     => /\ Members(store', f) = {get_key(f, ins[2].arg),
                                                 get_key(f, ins[3].arg)}
                        /\ store'.kv[get_key(f, ins[1].arg)] = None]_vars

\* C14: of two keys inserted into a limited namespace at clock readings
\* first < second, the first carries the strictly lower score in the index.
C14_ScoreFollowsClock ==
    \A f \in Limited :
        hist[f].pure =>
            \A i, j \in DOMAIN hist[f].ins :
                hist[f].ins[i].t < hist[f].ins[j].t =>
                    \A e, o \in store.zs[keys_key(f)] :
                        (/\ e.member = get_key(f, hist[f].ins[i].arg)
                         /\ o.member = get_key(f, hist[f].ins[j].arg))
                            => e.score < o.score

\* C15: when a wrapped call inserts a new key whose score equals that of a
\* member already in the index, and the trim evicts one of the two, it is the
\* member that was there first: the new key is not evicted while the earlier
\* one stays.
C15_TieEvictsEarlierInsert ==
    [][(last'.op = "call" /\ last'.computed # None /\ last'.outcome = "returned"
            /\ last'.fn \in Limited)
        => LET f == last'.fn
               key == get_key(f, last'.arg)
           IN \A e \in store.zs[keys_key(f)] :
                  (/\ e.member # key
                   /\ key \notin Members(store, f)
                   /\ e.score = Score(now)
                   /\ key \notin Members(store', f))
                      => e.member \notin Members(store', f)]_vars

\* C16: an mget that returns a list has populated every request index exactly
\* once; otherwise it fails instead of returning.
C16_EveryIndexPopulatedOnce ==
    (last.op = "mget" /\ last.outcome = "returned")
        => \A i \in 1..last.n : last.pops[i] = 1

\* C17: when mget returns after recomputing, two pending calls of the batch
\* (two dict objects) with the same key have the same result in the list.
C17_SameKeySameResult ==
    [][\A c \in Clients :
          (/\ cl[c].op = "mget" /\ cl[c].pc = "exec" /\ cl'[c].pc = "idle"
           /\ last'.outcome = "returned")
              => LET keys == MgetKeys(cl[c].batch, cl[c].objs)
                 IN \A i, j \in 1..Len(cl[c].batch) :
                        (cl[c].batch[i] # cl[c].batch[j] /\ keys[i] = keys[j])
                            => /\ Len(last'.ret) = Len(cl[c].batch)
                               /\ last'.ret[i] = last'.ret[j]]_vars

\* C18: for every key and whatever the store holds for it, the wrapped call's
\* test and mget's test agree on whether it is a miss.
C18_PathsClassifyAlike ==
    \A k \in ValueKeys : Falsy(store.kv[k]) <=> IsMiss(store.kv[k])

\* C19: right after a wrapped call has inserted its key into a limited
\* namespace, the key's value is in the store and the key is in the index.
C19_InsertKeepsOwnKey ==
    (last.op = "call" /\ last.outcome = "returned" /\ last.computed # None
         /\ last.fn \in Limited)
        => /\ store.kv[get_key(last.fn, last.arg)] # None
           /\ get_key(last.fn, last.arg) \in Members(store, last.fn)

\* C20: in a namespace with limit L every key that has a value in the store
\* is a member of the index, so at most L keys have values.
C20_ValuesAreIndexed ==
    \A f \in Limited :
        /\ \A a \in Cached(store, f) : get_key(f, a) \in Members(store, f)
        /\ Cardinality(Cached(store, f)) <= Descriptor(f).limit

====
